---- MODULE Spec2Model ----
(***************************************************************************)
(* Home Loan vs Rent simulator (src/app.py): the amortization engine, the  *)
(* tax calculator and the year-by-year simulation loop.                    *)
(*                                                                         *)
(* Every number of the program is a Python float (IEEE-754 binary64) or an *)
(* int that is converted to one when it meets a float.  The model carries  *)
(* each number as the exact value  s * m * 2^e  of that float (s the sign, *)
(* m an odd natural of at most 53 bits, e the exponent) and rounds after   *)
(* every arithmetic operation to the nearest float, ties to even, as the   *)
(* hardware does.  Naturals wider than one machine word are sequences of   *)
(* 15-bit limbs, least significant limb first.                             *)
(***************************************************************************)
EXTENDS Integers, Sequences, FiniteSets, TLC

(***************************************************************************)
(* Multi-word naturals.                                                    *)
(***************************************************************************)
LimbBits == 15
Base == 2^LimbBits

Limb(a, i) == IF i <= Len(a) THEN a[i] ELSE 0

\* TRUE, once v has been computed: the loops below compute each intermediate
\* value before they go on, as the program does
Done(v) == v = v

RECURSIVE BNNorm(_)
BNNorm(a) ==
    IF a = <<>> THEN a
    ELSE IF a[Len(a)] = 0 THEN BNNorm(SubSeq(a, 1, Len(a) - 1)) ELSE a

RECURSIVE BNFromNat(_)
BNFromNat(n) == IF n = 0 THEN <<>> ELSE <<n % Base>> \o BNFromNat(n \div Base)

RECURSIVE BNAddC(_, _, _, _, _)
BNAddC(a, b, i, c, acc) ==
    IF i > Len(a) /\ i > Len(b)
    THEN (IF c = 0 THEN acc ELSE Append(acc, c))
    ELSE LET s    == Limb(a, i) + Limb(b, i) + c
             acc2 == Append(acc, s % Base)
         IN  IF Done(acc2) THEN BNAddC(a, b, i + 1, s \div Base, acc2) ELSE <<>>

BNAdd(a, b) == BNAddC(a, b, 1, 0, <<>>)

\* a - b for a >= b
RECURSIVE BNSubC(_, _, _, _, _)
BNSubC(a, b, i, br, acc) ==
    IF i > Len(a) THEN BNNorm(acc)
    ELSE LET d    == a[i] - Limb(b, i) - br
             acc2 == Append(acc, IF d < 0 THEN d + Base ELSE d)
         IN  IF Done(acc2) THEN BNSubC(a, b, i + 1, IF d < 0 THEN 1 ELSE 0, acc2)
             ELSE <<>>

BNSub(a, b) == BNSubC(a, b, 1, 0, <<>>)

RECURSIVE BNCmpAt(_, _, _)
BNCmpAt(a, b, i) ==
    IF i = 0 THEN 0
    ELSE IF a[i] < b[i] THEN -1
    ELSE IF a[i] > b[i] THEN 1
    ELSE BNCmpAt(a, b, i - 1)

\* -1, 0 or 1 as a < b, a = b, a > b
BNCmp(a, b) ==
    IF Len(a) < Len(b) THEN -1
    ELSE IF Len(a) > Len(b) THEN 1
    ELSE BNCmpAt(a, b, Len(a))

RECURSIVE BNMulSmallC(_, _, _, _, _)
BNMulSmallC(a, k, i, c, acc) ==
    IF i > Len(a)
    THEN (IF c = 0 THEN acc ELSE Append(acc, c))
    ELSE LET p    == a[i] * k + c
             acc2 == Append(acc, p % Base)
         IN  IF Done(acc2) THEN BNMulSmallC(a, k, i + 1, p \div Base, acc2) ELSE <<>>

\* a * k for 0 <= k < Base
BNMulSmall(a, k) == IF k = 0 \/ a = <<>> THEN <<>> ELSE BNMulSmallC(a, k, 1, 0, <<>>)

BNShlLimbs(a, k) == IF a = <<>> THEN a ELSE [i \in 1..k |-> 0] \o a

RECURSIVE BNMulAcc(_, _, _, _)
BNMulAcc(a, b, j, acc) ==
    IF j > Len(b) THEN acc
    ELSE LET acc2 == BNAdd(acc, BNShlLimbs(BNMulSmall(a, b[j]), j - 1))
         IN  IF Done(acc2) THEN BNMulAcc(a, b, j + 1, acc2) ELSE <<>>

BNMul(a, b) == BNMulAcc(a, b, 1, <<>>)

\* a * 2^k
BNShl(a, k) == BNShlLimbs(BNMulSmall(a, 2^(k % LimbBits)), k \div LimbBits)

RECURSIVE BNDivSmallC(_, _, _, _, _)
BNDivSmallC(a, d, i, r, acc) ==
    IF i = 0 THEN [q |-> BNNorm(acc), r |-> IF r = 0 THEN <<>> ELSE <<r>>]
    ELSE LET c    == r * Base + a[i]
             acc2 == <<c \div d>> \o acc
         IN  IF Done(acc2) THEN BNDivSmallC(a, d, i - 1, c % d, acc2)
             ELSE [q |-> <<>>, r |-> <<>>]

\* quotient and remainder of a by d, 0 < d < Base
BNDivSmall(a, d) == BNDivSmallC(a, d, Len(a), 0, <<>>)

\* a \div 2^k
BNShr(a, k) ==
    LET l == k \div LimbBits
        t == IF l >= Len(a) THEN <<>> ELSE SubSeq(a, l + 1, Len(a))
    IN  BNDivSmall(t, 2^(k % LimbBits)).q

RECURSIVE NatBitLen(_)
NatBitLen(n) == IF n = 0 THEN 0 ELSE 1 + NatBitLen(n \div 2)

BNBitLen(a) == IF a = <<>> THEN 0 ELSE LimbBits * (Len(a) - 1) + NatBitLen(a[Len(a)])

RECURSIVE NatTrailingZeros(_)
NatTrailingZeros(n) == IF n % 2 = 1 THEN 0 ELSE 1 + NatTrailingZeros(n \div 2)

\* number of trailing zero bits of a # 0
RECURSIVE BNTrailingZeros(_)
BNTrailingZeros(a) ==
    IF a[1] = 0 THEN LimbBits + BNTrailingZeros(Tail(a))
    ELSE NatTrailingZeros(a[1])

BNIsOdd(a) == a # <<>> /\ a[1] % 2 = 1

\* the greatest q below Base with d * q <= r, settled from bit b downwards
RECURSIVE BNDigit(_, _, _, _)
BNDigit(r, d, b, q) ==
    IF b < 0 THEN q
    ELSE LET c  == q + 2^b
             q2 == IF BNCmp(BNMulSmall(d, c), r) <= 0 THEN c ELSE q
         IN  IF Done(q2) THEN BNDigit(r, d, b - 1, q2) ELSE 0

\* schoolbook long division, limb i of n downto limb 1
RECURSIVE BNDivLimbs(_, _, _, _, _)
BNDivLimbs(n, d, i, q, r) ==
    IF i = 0 THEN [q |-> BNNorm(q), r |-> r]
    ELSE LET r1 == BNNorm(<<n[i]>> \o r)
             g  == BNDigit(r1, d, LimbBits - 1, 0)
             q2 == <<g>> \o q
             r2 == BNSub(r1, BNMulSmall(d, g))
         IN  IF Done(q2) /\ Done(r2) THEN BNDivLimbs(n, d, i - 1, q2, r2)
             ELSE [q |-> <<>>, r |-> <<>>]

\* quotient and remainder of n by d # 0
BNDivMod(n, d) ==
    IF Len(d) = 1 THEN BNDivSmall(n, d[1])
    ELSE BNDivLimbs(n, d, Len(n), <<>>, <<>>)

(***************************************************************************)
(* Python floats.                                                          *)
(***************************************************************************)
Prec == 53

FZero == [s |-> 0, m |-> <<>>, e |-> 0]

\* the float nearest to s * m * 2^e, ties to the even significand
FRound(s, m, e) ==
    IF s = 0 \/ m = <<>> THEN FZero
    ELSE LET k   == BNBitLen(m) - Prec
             q0  == IF k <= 0 THEN m ELSE BNShr(m, k)
             rem == IF k <= 0 THEN <<>> ELSE BNSub(m, BNShl(q0, k))
             c   == IF k <= 0 THEN -1 ELSE BNCmp(rem, BNShl(<<1>>, k - 1))
             up  == c > 0 \/ (c = 0 /\ BNIsOdd(q0))
             q   == IF up THEN BNAdd(q0, <<1>>) ELSE q0
             e1  == IF k <= 0 THEN e ELSE e + k
             tz  == BNTrailingZeros(q)
         IN  [s |-> s, m |-> BNShr(q, tz), e |-> e1 + tz]

\* int -> float
RoundInt(n) ==
    IF n = 0 THEN FZero
    ELSE IF n < 0 THEN FRound(-1, BNFromNat(-n), 0)
    ELSE FRound(1, BNFromNat(n), 0)

FNeg(x) == [x EXCEPT !.s = -x.s]

\* x + y
RoundAdd(x, y) ==
    IF x.s = 0 THEN y
    ELSE IF y.s = 0 THEN x
    ELSE LET e == IF x.e < y.e THEN x.e ELSE y.e
             a == BNShl(x.m, x.e - e)
             b == BNShl(y.m, y.e - e)
             c == BNCmp(a, b)
         IN  IF x.s = y.s THEN FRound(x.s, BNAdd(a, b), e)
             ELSE IF c = 0 THEN FZero
             ELSE IF c > 0 THEN FRound(x.s, BNSub(a, b), e)
             ELSE FRound(y.s, BNSub(b, a), e)

\* x * y
RoundMul(x, y) ==
    IF x.s = 0 \/ y.s = 0 THEN FZero
    ELSE FRound(x.s * y.s, BNMul(x.m, y.m), x.e + y.e)

\* x / y for y # 0: the quotient to 56 bits or more and a sticky bit, rounded
RoundDiv(x, y) ==
    IF x.s = 0 THEN FZero
    ELSE LET need == BNBitLen(y.m) + Prec + 3 - BNBitLen(x.m)
             sh   == IF need > 0 THEN need ELSE 0
             d    == BNDivMod(BNShl(x.m, sh), y.m)
             m2   == BNAdd(BNMulSmall(d.q, 2), IF d.r = <<>> THEN <<>> ELSE <<1>>)
         IN  FRound(x.s * y.s, m2, x.e - y.e - sh - 1)

\* m * 2^e cut down to its leading PowBits bits; st tells whether bits were lost
PowBits == 10 * LimbBits

PowCut(m, e, st) ==
    LET k == BNBitLen(m) - PowBits
        q == BNShr(m, k)
    IN  IF k <= 0 THEN [m |-> m, e |-> e, st |-> st]
        ELSE [m |-> q, e |-> e + k, st |-> st \/ BNShl(q, k) # m]

RECURSIVE PowWide(_, _)
PowWide(x, n) ==
    IF n = 0 THEN [m |-> <<1>>, e |-> 0, st |-> FALSE]
    ELSE LET h  == PowWide(x, n \div 2)
             sq == PowCut(BNMul(h.m, h.m), 2 * h.e, h.st)
         IN  IF n % 2 = 0 THEN sq
             ELSE PowCut(BNMul(sq.m, x.m), sq.e + x.e, sq.st)

\* x ** n for x > 0 and an int n >= 0: pow(), evaluated to PowBits bits and
\* rounded once to the nearest float
RoundPow(x, n) ==
    LET p == PowWide(x, n)
    IN  FRound(1, BNAdd(BNMulSmall(p.m, 2), IF p.st THEN <<1>> ELSE <<>>), p.e - 1)

\* the floats: 0, or s * m * 2^e with an odd m
Binary64 == [s : {-1, 0, 1}, m : Seq(0..(Base - 1)), e : Int]

\* float arithmetic as the interpreter provides it: int -> float, +, *, / and **
\* on floats, each rounded to the nearest float
Float ==
    [from_int |-> [n \in Int |-> RoundInt(n)],
     add      |-> [x \in Binary64, y \in Binary64 |-> RoundAdd(x, y)],
     mul      |-> [x \in Binary64, y \in Binary64 |-> RoundMul(x, y)],
     div      |-> [x \in Binary64, y \in Binary64 |-> RoundDiv(x, y)],
     pow      |-> [x \in Binary64, n \in Nat |-> RoundPow(x, n)]]

\* the operations of the code below, on the arithmetic F it runs with
FInt(F, n) == F.from_int[n]
FAdd(F, x, y) == F.add[x, y]
FMul(F, x, y) == F.mul[x, y]
FDiv(F, x, y) == F.div[x, y]
FPow(F, x, n) == F.pow[x, n]

\* x - y
FSub(F, x, y) == FAdd(F, x, FNeg(y))

\* the sign of x - y: -1, 0, 1
FCmp(F, x, y) == FSub(F, x, y).s

FLt(F, x, y) == FCmp(F, x, y) < 0
FLe(F, x, y) == FCmp(F, x, y) <= 0

\* Python's min(x, y) and max(x, y): the first argument unless the second beats it
FMin(F, x, y) == IF FLt(F, y, x) THEN y ELSE x
FMax(F, x, y) == IF FLt(F, x, y) THEN y ELSE x

\* the float written n/d in decimal: a literal, or a widget value with a decimal step
FDec(F, n, d) == FDiv(F, FInt(F, n), FInt(F, d))

FOne(F) == FInt(F, 1)
FHundred(F) == FInt(F, 100)

(***************************************************************************)
(* Inputs (the sidebar controls).  Amounts are ints in rupees; sliders     *)
(* with a 0.1 step are held in tenths, the cess fraction in hundredths.    *)
(***************************************************************************)
MaxTenure == 2
MaxYears == 3

HousePrices == {4000000, 5000000}
LoanAmounts == {4500000}
TenureYears == 1..MaxTenure
InterestTenths == {0, 1, 120}
MonthlyRents == {15000}
RentIncrementTenths == {120}
CagrTenths == {105}
InflationTenths == {65}
Salaries == {500000, 800000}
SalaryIncrementTenths == {100}
InitialCash == {0, 1000000}
ExpensePercents == {50}
TaxRegimes == {"Old", "New", "Auto (choose lower)"}
InterestCaps == {200000}
CessHundredths == {4}
SimYears == 1..MaxYears
Other80C == {0}
NpsEmployee == {0}
NpsEmployerTenths == {0}
Health80D == {0}
HraExemptions == {0}
disability_options ==
    [k \in {"None", "Normal", "Severe"} |->
        IF k = "None" THEN 0 ELSE IF k = "Normal" THEN 75000 ELSE 125000]
Disabilities == {"None"}

Configs ==
    [HOUSE_PRICE : HousePrices, LOAN_AMOUNT : LoanAmounts,
     LOAN_TENURE_YEARS : TenureYears, LOAN_INTEREST_PERCENT : InterestTenths,
     INITIAL_MONTHLY_RENT : MonthlyRents,
     RENT_INCREMENT_PERCENT : RentIncrementTenths,
     INVESTMENT_RETURN_CAGR : CagrTenths,
     INFLATION_PERCENT_PER_YEAR : InflationTenths,
     EMPLOYEE_SALARY_CURRENT : Salaries,
     EMPLOYEE_SALARY_INCREMENT_PERCENT_PA : SalaryIncrementTenths,
     INITIAL_CASH : InitialCash, EXPENSE_PERCENT : ExpensePercents,
     tax_regime : TaxRegimes,
     INTEREST_DEDUCTION_CAP_ANNUAL : InterestCaps,
     HEALTH_EDU_CESS : CessHundredths, YEARS : SimYears,
     OTHER_80C_ANNUAL : Other80C, NPS_EMPLOYEE_80CCD1B : NpsEmployee,
     NPS_EMPLOYER_PERCENT : NpsEmployerTenths, HEALTH_80D : Health80D,
     HRA_EXEMPTION_ANNUAL : HraExemptions, DISABILITY_80U : Disabilities]

\* the number inputs have no lower limit, and the deductions of the old regime
\* can be filled in: one household of Configs with, in turn, a negative
\* interest cap, an HRA exemption, and every deduction claimed
Household ==
    {c \in Configs : /\ c.HOUSE_PRICE = 5000000
                     /\ c.LOAN_INTEREST_PERCENT = 120
                     /\ c.EMPLOYEE_SALARY_CURRENT = 800000
                     /\ c.INITIAL_CASH = 0}

NegativeCap == -200000
HraClaimed == 300000

Variants ==
    UNION {{[c EXCEPT !.INTEREST_DEDUCTION_CAP_ANNUAL = NegativeCap],
            [c EXCEPT !.HRA_EXEMPTION_ANNUAL = HraClaimed],
            [c EXCEPT !.OTHER_80C_ANNUAL = 100000, !.NPS_EMPLOYEE_80CCD1B = 50000,
                      !.NPS_EMPLOYER_PERCENT = 50, !.HEALTH_80D = 25000,
                      !.DISABILITY_80U = "Normal"]} : c \in Household}

Inputs == Configs \cup Variants

\* a slider value held in tenths, as the float the slider returns
Tenths(F, t) == FDec(F, t, 10)

\* Hardcoded constants
STANDARD_DEDUCTION_OLD == 50000
STANDARD_DEDUCTION_NEW == 75000
SEC_80C_CAP == 150000
SEC_80CCD1B_CAP == 50000
SEC_80D_CAP == 25000
SEC_80CCD2_CAP_PERCENT(F) == FInt(F, 10)

(***************************************************************************)
(* Amortization engine.                                                    *)
(***************************************************************************)
\* r = annual_rate_percent / 100.0 / 12.0
MonthlyRate(F, annual_rate_percent) ==
    FDiv(F, FDiv(F, annual_rate_percent, FHundred(F)), FInt(F, 12))

monthly_emi(F, principal, annual_rate_percent, tenure_months) ==
    LET r == MonthlyRate(F, annual_rate_percent)
        n == tenure_months
        g == FPow(F, FAdd(F, FOne(F), r), n)
    IN  IF r = FZero THEN FDiv(F, FInt(F, principal), FInt(F, n))
        ELSE FDiv(F, FMul(F, FMul(F, FInt(F, principal), r), g), FSub(F, g, FOne(F)))

\* 1e-8
BalanceEps(F) == FDec(F, 1, 100000000)

\* one pass of the loop body of amortization_schedule: the row of this month
AmortRow(F, month, emi, balance, r) ==
    LET interest       == FMul(F, balance, r)
        principal_paid == FSub(F, emi, interest)
        b1             == FSub(F, balance, principal_paid)
        b2             == IF FLt(F, b1, BalanceEps(F)) THEN FZero ELSE b1
    IN  [month |-> month, emi |-> emi, interest |-> interest,
         principal_paid |-> principal_paid, balance |-> b2]

(***************************************************************************)
(* Tax calculator.                                                         *)
(***************************************************************************)
\* 1e12, the width of the last band
TopBand(F) == FMul(F, FInt(F, 1000000), FInt(F, 1000000))

\* Tax slabs for AY 2025-26: <<slab_amount, rate>>
TAX_SLABS_OLD(F) ==
    << <<FInt(F, 250000), FZero>>,
       <<FInt(F, 250000), FDec(F, 5, 100)>>,
       <<FInt(F, 500000), FDec(F, 20, 100)>>,
       <<TopBand(F), FDec(F, 30, 100)>> >>

TAX_SLABS_NEW(F) ==
    << <<FInt(F, 300000), FZero>>,
       <<FInt(F, 400000), FDec(F, 5, 100)>>,
       <<FInt(F, 300000), FDec(F, 10, 100)>>,
       <<FInt(F, 200000), FDec(F, 15, 100)>>,
       <<FInt(F, 300000), FDec(F, 20, 100)>>,
       <<TopBand(F), FDec(F, 30, 100)>> >>

\* the slab loop of compute_annual_tax from slab i on
RECURSIVE SlabWalk(_, _, _, _, _)
SlabWalk(F, slabs, i, base_tax, remaining) ==
    IF i > Len(slabs) THEN base_tax
    ELSE LET taxable == FMin(F, slabs[i][1], remaining)
             bt      == FAdd(F, base_tax, FMul(F, FMax(F, FZero, taxable), slabs[i][2]))
             rem     == FSub(F, remaining, taxable)
         IN  IF FLe(F, rem, FZero) THEN bt ELSE SlabWalk(F, slabs, i + 1, bt, rem)

\* Rebate with the income test turned round
Rebate_AboveThreshold(F, regime, taxable_income, base_tax) ==
    IF regime = "old"
    THEN IF FLe(F, FInt(F, 500000), taxable_income)
         THEN FSub(F, base_tax, FMin(F, base_tax, FInt(F, 12500)))
         ELSE base_tax
    ELSE IF FLe(F, FInt(F, 700000), taxable_income)
         THEN FSub(F, base_tax, FMin(F, base_tax, FInt(F, 25000)))
         ELSE base_tax

\* Rebate u/s 87A: base_tax after the rebate
Rebate(F, regime, taxable_income, base_tax) ==
    IF regime = "old"
    THEN IF FLe(F, taxable_income, FInt(F, 500000))
         THEN FSub(F, base_tax, FMin(F, base_tax, FInt(F, 12500)))
         ELSE base_tax
    ELSE IF FLe(F, taxable_income, FInt(F, 700000))
         THEN FSub(F, base_tax, FMin(F, base_tax, FInt(F, 25000)))
         ELSE base_tax

SurchargeRate(F, regime, taxable_income) ==
    IF FLt(F, FInt(F, 5000000), taxable_income)
    THEN IF regime = "old"
         THEN IF FLt(F, FInt(F, 50000000), taxable_income) THEN FDec(F, 37, 100)
              ELSE IF FLt(F, FInt(F, 20000000), taxable_income) THEN FDec(F, 25, 100)
              ELSE IF FLt(F, FInt(F, 10000000), taxable_income) THEN FDec(F, 15, 100)
              ELSE FDec(F, 10, 100)
         ELSE IF FLt(F, FInt(F, 20000000), taxable_income) THEN FDec(F, 25, 100)
              ELSE IF FLt(F, FInt(F, 10000000), taxable_income) THEN FDec(F, 15, 100)
              ELSE FDec(F, 10, 100)
    ELSE FZero

compute_annual_tax(F, taxable_income, slabs, regime, cess) ==
    LET walked    == SlabWalk(F, slabs, 1, FZero, taxable_income)
        base_tax  == FMax(F, Rebate(F, regime, taxable_income, walked), FZero)
        surcharge == FMul(F, base_tax, SurchargeRate(F, regime, taxable_income))
        total_tax == FAdd(F, base_tax, surcharge)
    IN  FMul(F, total_tax, FAdd(F, FOne(F), cess))

(***************************************************************************)
(* Scenario simulator: the pieces of one pass of the yearly loop.          *)
(***************************************************************************)
down_payment(c) ==
    IF c.HOUSE_PRICE - c.LOAN_AMOUNT > 0 THEN c.HOUSE_PRICE - c.LOAN_AMOUNT ELSE 0

\* OpeningLoan that leaves the down payment in
OpeningLoan_FullCash(F, c) == FMax(F, FZero, FInt(F, c.INITIAL_CASH))

\* investment_value_loan before the loop: max(0.0, INITIAL_CASH - down_payment)
OpeningLoan(F, c) == FMax(F, FZero, FInt(F, c.INITIAL_CASH - down_payment(c)))

\* investment_value_rent before the loop
OpeningRent(F, c) == FInt(F, c.INITIAL_CASH)

\* df_slice for loop index y (0-based): am_table.iloc[start:end], or empty
AmortSlice(table, y) ==
    LET start == y * 12
        end   == IF (y + 1) * 12 < Len(table) THEN (y + 1) * 12 ELSE Len(table)
    IN  IF start >= Len(table) THEN <<>> ELSE SubSeq(table, start + 1, end)

\* df_slice[col].sum(), 0.0 for the empty slice
RECURSIVE ColumnSum(_, _, _)
ColumnSum(F, slice, col) ==
    IF slice = <<>> THEN FZero
    ELSE FAdd(F, ColumnSum(F, SubSeq(slice, 1, Len(slice) - 1), col),
              slice[Len(slice)][col])

\* LoanBalance reading the row of the month before the year's last
LoanBalance_MonthBefore(table, y) ==
    IF (y + 1) * 12 - 1 < Len(table) THEN table[(y + 1) * 12 - 1].balance ELSE FZero

\* the balance at the end of loop index y
LoanBalance(table, y) ==
    IF (y + 1) * 12 - 1 < Len(table) THEN table[(y + 1) * 12].balance ELSE FZero

\* SelectTax whose Auto branch keeps the old-regime tax
SelectTax_PicksOld(F, tax_regime, tax_old, tax_new) ==
    IF tax_regime = "Old" THEN tax_old
    ELSE IF tax_regime = "New" THEN tax_new
    ELSE tax_old

\* Select tax based on regime
SelectTax(F, tax_regime, tax_old, tax_new) ==
    IF tax_regime = "Old" THEN tax_old
    ELSE IF tax_regime = "New" THEN tax_new
    ELSE FMin(F, tax_old, tax_new)

\* SelectRegime with the two labels of the Auto branch exchanged
SelectRegime_Swapped(tax_regime, tax, tax_old) ==
    IF tax_regime = "Old" THEN "Old"
    ELSE IF tax_regime = "New" THEN "New"
    ELSE IF tax = tax_old THEN "New" ELSE "Old"

\* selected_regime: the label of the regime whose tax is charged
SelectRegime(tax_regime, tax, tax_old) ==
    IF tax_regime = "Old" THEN "Old"
    ELSE IF tax_regime = "New" THEN "New"
    ELSE IF tax = tax_old THEN "Old" ELSE "New"

\* Investable without the floor at zero
Investable_NoFloor(F, annual_salary, tax, expense_percent, outflow) ==
    LET in_hand   == FSub(F, annual_salary, tax)
        expenses  == FMul(F, FDiv(F, FInt(F, expense_percent), FHundred(F)), in_hand)
        remaining == FSub(F, in_hand, expenses)
    IN  FSub(F, remaining, outflow)

\* Investable amounts: in_hand, expenses, remaining, investable
Investable(F, annual_salary, tax, expense_percent, outflow) ==
    LET in_hand   == FSub(F, annual_salary, tax)
        expenses  == FMul(F, FDiv(F, FInt(F, expense_percent), FHundred(F)), in_hand)
        remaining == FSub(F, in_hand, expenses)
    IN  FMax(F, FZero, FSub(F, remaining, outflow))

\* value * (1 + percent / 100.0)
GrowBy(F, value, percent) == FMul(F, value, FAdd(F, FOne(F), FDiv(F, percent, FHundred(F))))

\* GrowInvestment that lets the year's surplus earn the year's return
GrowInvestment_SameYear(F, value, percent, investable) ==
    GrowBy(F, FAdd(F, value, investable), percent)

\* Grow investments: last year's value grown, this year's surplus added
GrowInvestment(F, value, percent, investable) == FAdd(F, GrowBy(F, value, percent), investable)

\* NetWorthLoan that forgets the outstanding loan
NetWorthLoan_NoDebt(F, investment, house, balance) == FAdd(F, investment, house)

NetWorthLoan(F, investment, house, balance) == FSub(F, FAdd(F, investment, house), balance)

NetWorthRent(investment) == investment

\* HouseProperty that counts the interest as income
HouseProperty_AsIncome(interest_ded) == interest_ded

\* house_prop_loan = -interest_ded: the interest deducted, as a loss
HouseProperty(interest_ded) == FNeg(interest_ded)

\* one row of tax_details
TaxDetail(year, scenario, regime, salary, std, hra, hp, c80, ccd1b, ccd2, d80, u80, chvia, gross, taxable, tax) ==
    [year |-> year, scenario |-> scenario, regime |-> regime,
     gross_salary |-> salary, standard_deduction |-> std, hra_exemption |-> hra,
     house_property_loss |-> hp, sec_80c |-> c80, sec_80ccd1b |-> ccd1b,
     sec_80ccd2 |-> ccd2, sec_80d |-> d80, sec_80u |-> u80,
     total_chapter_via_deductions |-> chvia, gross_total_income |-> gross,
     taxable_income |-> taxable, tax_amount |-> tax]

\* YearNo counting from 0
YearNo_ZeroBased(y) == y

\* the year number written into the rows of loop index y
YearNo(y) == y + 1

\* the body of `for y in range(YEARS)` for loop index y, from the values the
\* loop carries: the row, the four tax rows and the carried values afterwards
YearBody(F, c, y, annual_salary, investment_value_loan, investment_value_rent, house_value, table) ==
    LET \* Amortization slice
        df_slice    == AmortSlice(table, y)
        interest_y  == ColumnSum(F, df_slice, "interest")
        principal_y == ColumnSum(F, df_slice, "principal_paid")
        emi_y       == ColumnSum(F, df_slice, "emi")
        \* Annual rent
        annual_rent ==
            FMul(F, FInt(F, c.INITIAL_MONTHLY_RENT * 12),
                 FPow(F, FAdd(F, FOne(F), FDiv(F, Tenths(F, c.RENT_INCREMENT_PERCENT), FHundred(F))), y))
        \* Common deductions
        npsA        == FMul(F, FDiv(F, SEC_80CCD2_CAP_PERCENT(F), FHundred(F)), annual_salary)
        npsB        == FMul(F, FDiv(F, Tenths(F, c.NPS_EMPLOYER_PERCENT), FHundred(F)), annual_salary)
        ded_80ccd1b == FInt(F, IF c.NPS_EMPLOYEE_80CCD1B < SEC_80CCD1B_CAP
                            THEN c.NPS_EMPLOYEE_80CCD1B ELSE SEC_80CCD1B_CAP)
        ded_80ccd2  == FMin(F, npsA, npsB)
        ded_80d     == FInt(F, IF c.HEALTH_80D < SEC_80D_CAP THEN c.HEALTH_80D ELSE SEC_80D_CAP)
        ded_80u     == FInt(F, disability_options[c.DISABILITY_80U])
        cess        == FDec(F, c.HEALTH_EDU_CESS, 100)
        \* Loan scenario tax (old regime)
        hra_loan      == FZero
        interest_ded  == FMin(F, interest_y, FInt(F, c.INTEREST_DEDUCTION_CAP_ANNUAL))
        principal_ded == principal_y
        ded_80c_loan  == FMin(F, FInt(F, SEC_80C_CAP),
                              FAdd(F, FInt(F, c.OTHER_80C_ANNUAL), principal_ded))
        chvia_ded_loan_old ==
            FAdd(F, FAdd(F, FAdd(F, FAdd(F, ded_80c_loan, ded_80ccd1b), ded_80ccd2), ded_80d), ded_80u)
        salary_income_loan_old ==
            FSub(F, FSub(F, annual_salary, hra_loan), FInt(F, STANDARD_DEDUCTION_OLD))
        house_prop_loan      == HouseProperty(interest_ded)
        gross_total_loan_old == FAdd(F, salary_income_loan_old, house_prop_loan)
        taxable_loan_old     == FMax(F, FZero, FSub(F, gross_total_loan_old, chvia_ded_loan_old))
        tax_loan_old == compute_annual_tax(F, taxable_loan_old, TAX_SLABS_OLD(F), "old", cess)
        \* Rent scenario tax (old regime)
        hra_rent      == FInt(F, c.HRA_EXEMPTION_ANNUAL)
        ded_80c_rent  == FMin(F, FInt(F, SEC_80C_CAP), FInt(F, c.OTHER_80C_ANNUAL + 0))
        chvia_ded_rent_old ==
            FAdd(F, FAdd(F, FAdd(F, FAdd(F, ded_80c_rent, ded_80ccd1b), ded_80ccd2), ded_80d), ded_80u)
        salary_income_rent_old ==
            FSub(F, FSub(F, annual_salary, hra_rent), FInt(F, STANDARD_DEDUCTION_OLD))
        house_prop_rent      == FZero
        gross_total_rent_old == FAdd(F, salary_income_rent_old, house_prop_rent)
        taxable_rent_old     == FMax(F, FZero, FSub(F, gross_total_rent_old, chvia_ded_rent_old))
        tax_rent_old == compute_annual_tax(F, taxable_rent_old, TAX_SLABS_OLD(F), "old", cess)
        \* New regime (same for both scenarios)
        chvia_ded_new     == ded_80ccd2
        salary_income_new == FSub(F, FSub(F, annual_salary, FZero), FInt(F, STANDARD_DEDUCTION_NEW))
        gross_total_new   == FAdd(F, salary_income_new, FZero)
        taxable_new       == FMax(F, FZero, FSub(F, gross_total_new, chvia_ded_new))
        tax_new == compute_annual_tax(F, taxable_new, TAX_SLABS_NEW(F), "new", cess)
        \* Select tax based on regime
        tax_loan == SelectTax(F, c.tax_regime, tax_loan_old, tax_new)
        tax_rent == SelectTax(F, c.tax_regime, tax_rent_old, tax_new)
        selected_regime_loan == SelectRegime(c.tax_regime, tax_loan, tax_loan_old)
        selected_regime_rent == SelectRegime(c.tax_regime, tax_rent, tax_rent_old)
        \* Investable amounts
        investable_loan == Investable(F, annual_salary, tax_loan, c.EXPENSE_PERCENT, emi_y)
        investable_rent == Investable(F, annual_salary, tax_rent, c.EXPENSE_PERCENT, annual_rent)
        \* Grow investments and house
        inv_loan == GrowInvestment(F, investment_value_loan,
                                   Tenths(F, c.INVESTMENT_RETURN_CAGR), investable_loan)
        inv_rent == GrowInvestment(F, investment_value_rent,
                                   Tenths(F, c.INVESTMENT_RETURN_CAGR), investable_rent)
        house    == GrowBy(F, house_value, Tenths(F, c.INFLATION_PERCENT_PER_YEAR))
        \* Loan balance
        balance  == LoanBalance(table, y)
        net_worth_loan == NetWorthLoan(F, inv_loan, house, balance)
        net_worth_rent == NetWorthRent(inv_rent)
        std_old == FInt(F, STANDARD_DEDUCTION_OLD)
        std_new == FInt(F, STANDARD_DEDUCTION_NEW)
        new_row(scenario) ==
            TaxDetail(YearNo(y), scenario, "New", annual_salary, std_new, FZero, FZero,
                      FZero, FZero, ded_80ccd2, FZero, FZero, chvia_ded_new,
                      gross_total_new, taxable_new, tax_new)
    IN  [row |->
            [year |-> YearNo(y), annual_salary |-> annual_salary,
             interest_paid |-> interest_y, principal_paid |-> principal_y,
             emi_paid |-> emi_y, annual_rent |-> annual_rent,
             tax_loan |-> tax_loan, tax_rent |-> tax_rent,
             investable_loan |-> investable_loan, investable_rent |-> investable_rent,
             investment_value_loan |-> inv_loan, investment_value_rent |-> inv_rent,
             house_value |-> house, loan_outstanding_balance_end_of_year |-> balance,
             net_worth_loan |-> net_worth_loan, net_worth_rent |-> net_worth_rent,
             selected_regime_loan |-> selected_regime_loan,
             selected_regime_rent |-> selected_regime_rent],
         details |->
            << TaxDetail(YearNo(y), "Loan", "Old", annual_salary, std_old, hra_loan,
                         house_prop_loan, ded_80c_loan, ded_80ccd1b, ded_80ccd2,
                         ded_80d, ded_80u, chvia_ded_loan_old, gross_total_loan_old,
                         taxable_loan_old, tax_loan_old),
               TaxDetail(YearNo(y), "Rent", "Old", annual_salary, std_old, hra_rent,
                         house_prop_rent, ded_80c_rent, ded_80ccd1b, ded_80ccd2,
                         ded_80d, ded_80u, chvia_ded_rent_old, gross_total_rent_old,
                         taxable_rent_old, tax_rent_old),
               new_row("Loan"),
               new_row("Rent") >>,
         \* Salary increment
         annual_salary |->
            GrowBy(F, annual_salary, Tenths(F, c.EMPLOYEE_SALARY_INCREMENT_PERCENT_PA))]

(***************************************************************************)
(* The script as a state machine.  pc is the place the script has reached: *)
(* "start" (inputs read), "amort" (inside the loop of                      *)
(* amortization_schedule), "loop" (inside the yearly loop), "done".        *)
(***************************************************************************)
VARIABLES cfg, pc, emi, balance, am_table, y, annual_salary,
          investment_value_loan, investment_value_rent, house_value,
          rows, tax_details, tax_in, tax_out

vars == <<cfg, pc, emi, balance, am_table, y, annual_salary,
          investment_value_loan, investment_value_rent, house_value,
          rows, tax_details, tax_in, tax_out>>

\* tax_in and tax_out hold the arguments and the results of compute_annual_tax
\* when the function is exercised alone (SpecTax below)
taxvars == <<tax_in, tax_out>>

simvars == <<y, annual_salary, investment_value_loan, investment_value_rent,
             house_value, rows, tax_details>>

tenure_months == cfg.LOAN_TENURE_YEARS * 12

Init ==
    /\ cfg \in Inputs
    /\ pc = "start"
    /\ emi = FZero
    /\ balance = FZero
    /\ am_table = <<>>
    /\ y = 0
    /\ annual_salary = FZero
    /\ investment_value_loan = FZero
    /\ investment_value_rent = FZero
    /\ house_value = FZero
    /\ rows = <<>>
    /\ tax_details = <<>>
    /\ tax_in = <<>>
    /\ tax_out = <<>>

\* amortization_schedule is entered: emi, balance and the empty schedule
AmortBegin(F) ==
    /\ pc = "start"
    /\ emi' = monthly_emi(F, cfg.LOAN_AMOUNT, Tenths(F, cfg.LOAN_INTEREST_PERCENT), tenure_months)
    /\ balance' = FInt(F, cfg.LOAN_AMOUNT)
    /\ am_table' = <<>>
    /\ pc' = "amort"
    /\ UNCHANGED <<cfg, simvars, taxvars>>

\* one pass of `for month in range(1, tenure_months + 1)`
AmortMonth(F) ==
    /\ pc = "amort"
    /\ Len(am_table) < tenure_months
    /\ LET row == AmortRow(F, Len(am_table) + 1, emi, balance,
                           MonthlyRate(F, Tenths(F, cfg.LOAN_INTEREST_PERCENT)))
       IN  /\ balance' = row.balance
           /\ am_table' = Append(am_table, row)
    /\ UNCHANGED <<cfg, pc, emi, simvars, taxvars>>

\* the schedule is returned; the values the yearly loop starts from
SimBegin(F) ==
    /\ pc = "amort"
    /\ Len(am_table) = tenure_months
    /\ rows' = <<>>
    /\ tax_details' = <<>>
    /\ annual_salary' = FInt(F, cfg.EMPLOYEE_SALARY_CURRENT)
    /\ investment_value_loan' = OpeningLoan(F, cfg)
    /\ investment_value_rent' = OpeningRent(F, cfg)
    /\ house_value' = FInt(F, cfg.HOUSE_PRICE)
    /\ y' = 0
    /\ pc' = "loop"
    /\ UNCHANGED <<cfg, emi, balance, am_table, taxvars>>

\* one pass of `for y in range(YEARS)`
YearStep(F) ==
    /\ pc = "loop"
    /\ y < cfg.YEARS
    /\ LET b == YearBody(F, cfg, y, annual_salary, investment_value_loan,
                         investment_value_rent, house_value, am_table)
       IN  /\ rows' = Append(rows, b.row)
           /\ tax_details' = tax_details \o b.details
           /\ investment_value_loan' = b.row.investment_value_loan
           /\ investment_value_rent' = b.row.investment_value_rent
           /\ house_value' = b.row.house_value
           /\ annual_salary' = b.annual_salary
    /\ y' = y + 1
    /\ UNCHANGED <<cfg, pc, emi, balance, am_table, taxvars>>

\* the loop is over: df and df_tax are built from rows and tax_details
Finish ==
    /\ pc = "loop"
    /\ y = cfg.YEARS
    /\ pc' = "done"
    /\ UNCHANGED <<cfg, emi, balance, am_table, simvars, taxvars>>

Next == \E F \in {Float} : AmortBegin(F) \/ AmortMonth(F) \/ SimBegin(F) \/ YearStep(F) \/ Finish

Spec == Init /\ [][Next]_vars

(***************************************************************************)
(* compute_annual_tax on its own: two incomes I1 < I2 under one regime,    *)
(* its slab table and one cess fraction.                                   *)
(***************************************************************************)
MaxDelta == 1

\* the band edges, the rebate thresholds and the surcharge tier boundaries
TaxEdges == {250000, 300000, 500000, 700000, 1000000, 1200000, 1500000,
             5000000, 10000000, 20000000, 50000000}

Incomes == {0} \cup {t + d : t \in TaxEdges, d \in (0 - MaxDelta)..MaxDelta}

TaxCess == {0, 4}

SlabsOf(F, regime) == IF regime = "old" THEN TAX_SLABS_OLD(F) ELSE TAX_SLABS_NEW(F)

InitTax ==
    /\ tax_in \in {a \in [I1 : Incomes, I2 : Incomes, regime : {"old", "new"},
                          cess : TaxCess] : a.I1 < a.I2}
    /\ tax_out = <<>>
    /\ pc = "tax"
    /\ cfg = <<>>
    /\ emi = FZero
    /\ balance = FZero
    /\ am_table = <<>>
    /\ y = 0
    /\ annual_salary = FZero
    /\ investment_value_loan = FZero
    /\ investment_value_rent = FZero
    /\ house_value = FZero
    /\ rows = <<>>
    /\ tax_details = <<>>

TaxCall(F) ==
    /\ pc = "tax"
    /\ tax_out' =
        << compute_annual_tax(F, FInt(F, tax_in.I1), SlabsOf(F, tax_in.regime), tax_in.regime,
                              FDec(F, tax_in.cess, 100)),
           compute_annual_tax(F, FInt(F, tax_in.I2), SlabsOf(F, tax_in.regime), tax_in.regime,
                              FDec(F, tax_in.cess, 100)) >>
    /\ pc' = "taxed"
    /\ UNCHANGED <<cfg, emi, balance, am_table, simvars, tax_in>>

NextTax == \E F \in {Float} : TaxCall(F)

SpecTax == InitTax /\ [][NextTax]_vars

(***************************************************************************)
(* Properties.                                                             *)
(***************************************************************************)
\* the taxes computed in year k, read from the four tax rows of that year
TaxLoanOld(k) == tax_details[4 * k - 3].tax_amount
TaxRentOld(k) == tax_details[4 * k - 2].tax_amount
TaxNew(k) == tax_details[4 * k - 1].tax_amount

FLeast(a, b) == IF FLe(Float, a, b) THEN a ELSE b
FFloor0(a) == IF FLt(Float, a, FZero) THEN FZero ELSE a
FAbs(a) == IF a.s < 0 THEN FNeg(a) ELSE a

Auto == "Auto (choose lower)"

\* C1: under the Auto policy the tax charged to the loan scenario in every
\* year is min(tax_loan_old, tax_new) and the tax charged to the rent
\* scenario is min(tax_rent_old, tax_new); under the Old policy both are the
\* old-regime tax of their scenario, under the New policy both are tax_new.
C1_TaxByPolicy ==
    \A k \in 1..Len(rows) :
        /\ cfg.tax_regime = Auto =>
              /\ rows[k].tax_loan = FLeast(TaxLoanOld(k), TaxNew(k))
              /\ rows[k].tax_rent = FLeast(TaxRentOld(k), TaxNew(k))
        /\ cfg.tax_regime = "Old" =>
              /\ rows[k].tax_loan = TaxLoanOld(k)
              /\ rows[k].tax_rent = TaxRentOld(k)
        /\ cfg.tax_regime = "New" =>
              /\ rows[k].tax_loan = TaxNew(k)
              /\ rows[k].tax_rent = TaxNew(k)

\* a year under Auto in which the new regime is strictly cheaper for the rent
\* scenario and the old regime strictly cheaper for the loan scenario
C1_Witness ==
    /\ cfg.tax_regime = Auto
    /\ \E k \in 1..Len(rows) :
          /\ FLt(Float, TaxNew(k), TaxRentOld(k))
          /\ rows[k].tax_rent = TaxNew(k)
          /\ FLt(Float, TaxLoanOld(k), TaxNew(k))
          /\ rows[k].tax_loan = TaxLoanOld(k)

\* C2: under the Auto policy the label of a scenario is "Old" exactly when
\* its old-regime tax <= tax_new and "New" otherwise (a tie is labelled
\* "Old"), and the tax of the labelled regime is the tax charged.
C2_RegimeLabel ==
    cfg.tax_regime = Auto =>
        \A k \in 1..Len(rows) :
            /\ rows[k].selected_regime_loan =
                  (IF FLe(Float, TaxLoanOld(k), TaxNew(k)) THEN "Old" ELSE "New")
            /\ rows[k].selected_regime_rent =
                  (IF FLe(Float, TaxRentOld(k), TaxNew(k)) THEN "Old" ELSE "New")
            /\ rows[k].tax_loan =
                  (IF rows[k].selected_regime_loan = "Old" THEN TaxLoanOld(k) ELSE TaxNew(k))
            /\ rows[k].tax_rent =
                  (IF rows[k].selected_regime_rent = "Old" THEN TaxRentOld(k) ELSE TaxNew(k))

\* a run under Auto with an exact tie in one year (labelled "Old") and a
\* strictly cheaper new regime in another (labelled "New")
C2_Witness ==
    /\ cfg.tax_regime = Auto
    /\ \E k \in 1..Len(rows) :
          /\ TaxLoanOld(k) = TaxNew(k)
          /\ rows[k].selected_regime_loan = "Old"
    /\ \E k \in 1..Len(rows) :
          /\ FLt(Float, TaxNew(k), TaxRentOld(k))
          /\ rows[k].selected_regime_rent = "New"

\* C3: in every yearly record net_worth_loan = investment_value_loan +
\* house_value - loan_outstanding_balance_end_of_year and net_worth_rent =
\* investment_value_rent, on the values of that record.
C3_NetWorth ==
    \A k \in 1..Len(rows) :
        /\ rows[k].net_worth_loan =
              FSub(Float, FAdd(Float, rows[k].investment_value_loan, rows[k].house_value),
                   rows[k].loan_outstanding_balance_end_of_year)
        /\ rows[k].net_worth_rent = rows[k].investment_value_rent

\* a record with money invested and a loan still outstanding
C3_Witness ==
    \E k \in 1..Len(rows) :
        /\ FLt(Float, FZero, rows[k].loan_outstanding_balance_end_of_year)
        /\ FLt(Float, FZero, rows[k].investment_value_loan)

\* C4: for a fixed regime, its slab table and a fixed cess fraction >= 0 the
\* tax is non-decreasing in the taxable income: I1 < I2 gives
\* tax(I1) <= tax(I2), across the rebate thresholds and the surcharge tier
\* boundaries too.
C4_TaxMonotone ==
    pc = "taxed" => (tax_in.I1 < tax_in.I2 => FLe(Float, tax_out[1], tax_out[2]))

\* the two incomes on either side of the old regime's rebate threshold have
\* been taxed: nothing at the threshold, a positive tax one rupee above
C4_Witness ==
    /\ pc = "taxed"
    /\ tax_in.regime = "old"
    /\ tax_in.I1 = 500000
    /\ tax_in.I2 = 500001
    /\ tax_out[1] = FZero
    /\ FLt(Float, FZero, tax_out[2])

\* 1e-6
FinalTolerance == FDec(Float, 1, 1000000)

\* C5: the balance of the last period of the schedule built by
\* amortization_schedule is within 1e-6 of zero.
C5_FinalBalance ==
    (pc \in {"loop", "done"} /\ Len(am_table) > 0) =>
        FLe(Float, FAbs(am_table[Len(am_table)].balance), FinalTolerance)

\* C6: in every year and for each scenario the investable surplus is
\* max(0, salary - tax - expenses - mandatoryOutflow), expenses being the
\* configured fraction of salary - tax and the outflow the year's loan
\* payments (loan scenario) or the year's rent (rent scenario); it is never
\* negative.
C6_Surplus(r, tax, outflow) ==
    LET post_tax == FSub(Float, r.annual_salary, tax)
        expenses == FMul(Float, FDiv(Float, FInt(Float, cfg.EXPENSE_PERCENT), FHundred(Float)), post_tax)
    IN  FFloor0(FSub(Float, FSub(Float, post_tax, expenses), outflow))

C6_InvestableSurplus ==
    \A k \in 1..Len(rows) :
        /\ rows[k].investable_loan = C6_Surplus(rows[k], rows[k].tax_loan, rows[k].emi_paid)
        /\ rows[k].investable_rent = C6_Surplus(rows[k], rows[k].tax_rent, rows[k].annual_rent)
        /\ rows[k].investable_loan.s >= 0
        /\ rows[k].investable_rent.s >= 0

\* a year in which the loan payments exceed what is left of the salary (the
\* surplus is held at 0) while the rent scenario has a positive surplus
C6_Witness ==
    \E k \in 1..Len(rows) :
        /\ rows[k].investable_loan = FZero
        /\ FLt(Float, FSub(Float, FSub(Float, rows[k].annual_salary, rows[k].tax_loan), rows[k].emi_paid), FZero)
        /\ FLt(Float, FZero, rows[k].investable_rent)

\* C7: investment(y) = investment(y-1) * (1 + cagr) + investable(y) for each
\* scenario, investment(0) being the balance the loop starts from: each pass
\* of the yearly loop takes the carried value, applies the growth factor and
\* only then adds the surplus of the year it records.
C7_Step ==
    (pc = "loop" /\ y' = y + 1) =>
        LET r    == rows'[Len(rows')]
            cagr == FDiv(Float, Tenths(Float, cfg.INVESTMENT_RETURN_CAGR), FHundred(Float))
        IN  /\ investment_value_loan' =
                  FAdd(Float, FMul(Float, investment_value_loan, FAdd(Float, FOne(Float), cagr)), r.investable_loan)
            /\ investment_value_rent' =
                  FAdd(Float, FMul(Float, investment_value_rent, FAdd(Float, FOne(Float), cagr)), r.investable_rent)
            /\ r.investment_value_loan = investment_value_loan'
            /\ r.investment_value_rent = investment_value_rent'

C7_Compounding == [][C7_Step]_vars

\* a second or later year has been recorded out of a positive carried balance
\* and a positive surplus
C7_Witness ==
    /\ Len(rows) >= 2
    /\ FLt(Float, FZero, rows[Len(rows) - 1].investment_value_rent)
    /\ FLt(Float, FZero, rows[Len(rows)].investable_rent)

\* C8 as stated: the loan scenario opens with initial cash - (house price -
\* loan amount), the rent scenario with the full initial cash.
C8_OpeningAsStated ==
    (pc = "loop" /\ y = 0) =>
        /\ investment_value_loan =
              FInt(Float, cfg.INITIAL_CASH - (cfg.HOUSE_PRICE - cfg.LOAN_AMOUNT))
        /\ investment_value_rent = FInt(Float, cfg.INITIAL_CASH)

C8_ExpectedLoan ==
    LET dp   == IF cfg.HOUSE_PRICE - cfg.LOAN_AMOUNT > 0
                THEN cfg.HOUSE_PRICE - cfg.LOAN_AMOUNT ELSE 0
        left == cfg.INITIAL_CASH - dp
    IN  IF left > 0 THEN FInt(Float, left) ELSE FZero

\* C8 (amended): the loan scenario opens with max(0, initial cash - max(0,
\* house price - loan amount)), the rent scenario with the full initial
\* cash; the adjustment is made once: the first record is the opening
\* balance grown by one year plus the first surplus.
C8_Opening ==
    /\ (pc = "loop" /\ y = 0) =>
          /\ investment_value_loan = C8_ExpectedLoan
          /\ investment_value_rent = FInt(Float, cfg.INITIAL_CASH)
    /\ Len(rows) >= 1 =>
          LET g == FAdd(Float, FOne(Float), FDiv(Float, Tenths(Float, cfg.INVESTMENT_RETURN_CAGR), FHundred(Float)))
          IN  /\ rows[1].investment_value_loan =
                    FAdd(Float, FMul(Float, C8_ExpectedLoan, g), rows[1].investable_loan)
              /\ rows[1].investment_value_rent =
                    FAdd(Float, FMul(Float, FInt(Float, cfg.INITIAL_CASH), g), rows[1].investable_rent)

\* the first year is recorded for a buyer whose cash exceeds the down payment
C8_Witness ==
    /\ Len(rows) >= 1
    /\ cfg.HOUSE_PRICE > cfg.LOAN_AMOUNT
    /\ cfg.INITIAL_CASH > cfg.HOUSE_PRICE - cfg.LOAN_AMOUNT
    /\ rows[1].investment_value_loan # rows[1].investment_value_rent

\* C9: for a horizon of N years and any loan tenure the simulator emits the
\* records of years 1, 2, ..., N in this order, N of them when it is done;
\* a record once appended is never changed; each year adds the four tax rows
\* Loan/Old, Rent/Old, Loan/New, Rent/New with the year of its record.
C9_Shape ==
    /\ Len(tax_details) = 4 * Len(rows)
    /\ pc = "loop" => Len(rows) = y
    /\ pc = "done" => Len(rows) = cfg.YEARS
    /\ \A k \in 1..Len(rows) :
          /\ rows[k].year = k
          /\ \A j \in 1..4 : tax_details[4 * (k - 1) + j].year = k
          /\ <<tax_details[4 * k - 3].scenario, tax_details[4 * k - 3].regime>> = <<"Loan", "Old">>
          /\ <<tax_details[4 * k - 2].scenario, tax_details[4 * k - 2].regime>> = <<"Rent", "Old">>
          /\ <<tax_details[4 * k - 1].scenario, tax_details[4 * k - 1].regime>> = <<"Loan", "New">>
          /\ <<tax_details[4 * k].scenario, tax_details[4 * k].regime>> = <<"Rent", "New">>

C9_Step ==
    /\ Len(rows') \in {Len(rows), Len(rows) + 1}
    /\ SubSeq(rows', 1, Len(rows)) = rows
    /\ SubSeq(tax_details', 1, Len(tax_details)) = tax_details

C9_Records == []C9_Shape /\ [][C9_Step]_vars

\* a finished run whose horizon is longer than the loan tenure
C9_Witness ==
    /\ pc = "done"
    /\ cfg.YEARS > cfg.LOAN_TENURE_YEARS
    /\ Len(rows) = cfg.YEARS

\* C10: a record of a year after the loan tenure has interest_paid,
\* principal_paid, emi_paid and the outstanding balance all 0; a record of a
\* year k within the tenure has the balance of schedule period 12 * k and
\* the sums of periods 12 * (k - 1) + 1 .. 12 * k as paid amounts.
C10_LoanColumns ==
    \A k \in 1..Len(rows) :
        IF k > cfg.LOAN_TENURE_YEARS
        THEN /\ rows[k].interest_paid = FZero
             /\ rows[k].principal_paid = FZero
             /\ rows[k].emi_paid = FZero
             /\ rows[k].loan_outstanding_balance_end_of_year = FZero
        ELSE LET periods == SubSeq(am_table, 12 * (k - 1) + 1, 12 * k)
             IN  /\ Len(periods) = 12
                 /\ periods[1].month = 12 * (k - 1) + 1
                 /\ periods[12].month = 12 * k
                 /\ rows[k].loan_outstanding_balance_end_of_year = periods[12].balance
                 /\ rows[k].interest_paid = ColumnSum(Float, periods, "interest")
                 /\ rows[k].principal_paid = ColumnSum(Float, periods, "principal_paid")
                 /\ rows[k].emi_paid = ColumnSum(Float, periods, "emi")

\* records on both sides of the end of the loan: a year with payments and a
\* balance left, and a later year after the payoff
C10_Witness ==
    /\ Len(rows) > cfg.LOAN_TENURE_YEARS
    /\ cfg.LOAN_TENURE_YEARS >= 2
    /\ FLt(Float, FZero, rows[1].emi_paid)
    /\ FLt(Float, FZero, rows[1].loan_outstanding_balance_end_of_year)
    /\ rows[Len(rows)].emi_paid = FZero

\* C11 as stated: when the configured HRA exemption is 0, in every simulated
\* year and under every regime policy the tax charged to the loan scenario is
\* <= the tax charged to the rent scenario.
C11_LoanTaxAsStated ==
    cfg.HRA_EXEMPTION_ANNUAL = 0 =>
        \A k \in 1..Len(rows) : FLe(Float, rows[k].tax_loan, rows[k].tax_rent)

\* C11 (amended): when the configured HRA exemption is 0 and the interest
\* deduction cap, the cess fraction and the loan amount are not negative, in
\* every simulated year and under every regime policy the tax charged to the
\* loan scenario is <= the tax charged to the rent scenario: the loan
\* scenario's old-regime taxable income and tax are never larger than the
\* rent scenario's, and the new-regime tax is the same for both.
C11_LoanTaxNoHigher ==
    (/\ cfg.HRA_EXEMPTION_ANNUAL = 0
     /\ cfg.INTEREST_DEDUCTION_CAP_ANNUAL >= 0
     /\ cfg.HEALTH_EDU_CESS >= 0
     /\ cfg.LOAN_AMOUNT >= 0) =>
        \A k \in 1..Len(rows) :
            /\ FLe(Float, rows[k].tax_loan, rows[k].tax_rent)
            /\ FLe(Float, tax_details[4 * k - 3].taxable_income,
                          tax_details[4 * k - 2].taxable_income)
            /\ FLe(Float, TaxLoanOld(k), TaxRentOld(k))
            /\ TaxNew(k) = tax_details[4 * k].tax_amount

\* a household with no HRA exemption and a cap that is not negative, under the
\* Old policy: a year in which the loan deductions make the loan scenario's
\* tax strictly lower, and a later year, the loan paid off, with equal taxes
C11_Witness ==
    /\ cfg.HRA_EXEMPTION_ANNUAL = 0
    /\ cfg.INTEREST_DEDUCTION_CAP_ANNUAL >= 0
    /\ cfg.HEALTH_EDU_CESS >= 0
    /\ cfg.tax_regime = "Old"
    /\ Len(rows) >= 2
    /\ FLt(Float, rows[1].tax_loan, rows[1].tax_rent)
    /\ FLt(Float, FZero, rows[Len(rows)].tax_loan)
    /\ rows[Len(rows)].tax_loan = rows[Len(rows)].tax_rent

====
